---- MODULE Spec2Model ----
(***************************************************************************)
(* Model of the witch-trials graph pipeline (src/src): carregar_dados ->   *)
(* preprocessar -> construir_grafo -> analyses, as main() runs it, and of  *)
(* construir_grafo called directly on a table that already has the column  *)
(* localizacao.                                                            *)
(*                                                                         *)
(* Values.  A DataFrame cell, a node of the graph and a node attribute are *)
(* all "cells": records [k, s, n].                                         *)
(*   k = "nan"   a float NaN; n is the identity of the float object (two   *)
(*               NaN objects are different dictionary keys in Python,      *)
(*               because nan != nan and the lookup falls back on identity) *)
(*               n >= 1: the object iterrows boxed for the row of that id  *)
(*   k = "none"  Python None                                               *)
(*   k = "str"   a string, s its text as a sequence of atoms; the atom     *)
(*               ", " is the separator the code concatenates with          *)
(*   k = "int"   an integer n                                              *)
(*   k = "float" a float, n its value in tenths (27 is 2.7)                *)
(***************************************************************************)
EXTENDS Integers, Sequences, FiniteSets, TLC

VARIABLES
    modo,   \* "main": main() runs the pipeline; "direto": construir_grafo(df) alone
    csv,    \* the table as loaded (never changes; the record sequence of the run)
    df,     \* the DataFrame variable of main / the argument of construir_grafo
    pc,     \* position in main
    i,      \* position of the iterrows loop of construir_grafo (1-based)
    G,      \* the nx.DiGraph being built
    resultados  \* what executar_analise_completa returned (<<>> before it has)

vars == <<modo, csv, df, pc, i, G, resultados>>

\* Largest number of rows of the input table.
MaxRows == 2

\* Largest value tried for the parameter n / top_n of the rankings, besides the default.
MaxTop == 2

----------------------------------------------------------------------------
\* Cells

\* a boxed NaN: the float object of identity id
NaNObj(id) == [k |-> "nan", s |-> <<>>, n |-> id]
\* a NaN stored unboxed in a float64 column (iterrows boxes it, one new object per row)
NaN == NaNObj(0)
\* the one NaN object the CSV parser stores in the cells of an object column
NaNParser == NaNObj(-1)
\* the one NaN object a pandas string operation stores in its result column
NaNOp == NaNObj(-2)
None == [k |-> "none", s |-> <<>>, n |-> 0]
Str(s) == [k |-> "str", s |-> s, n |-> 0]
PyInt(n) == [k |-> "int", s |-> <<>>, n |-> n]
PyFloat(t) == [k |-> "float", s |-> <<>>, n |-> t]

SEP == ", "

\* pd.isna / pd.notna
isna(c) == c.k = "nan"
notna(c) == ~isna(c)

\* the text of an f-string field: str(value)
Digito(d) == CASE d = 0 -> "0" [] d = 1 -> "1" [] d = 2 -> "2" [] d = 3 -> "3"
               [] d = 4 -> "4" [] d = 5 -> "5" [] d = 6 -> "6" [] d = 7 -> "7"
               [] d = 8 -> "8" [] d = 9 -> "9"

RECURSIVE Digitos(_)
Digitos(n) == IF n < 10 THEN <<Digito(n)>> ELSE Digitos(n \div 10) \o <<Digito(n % 10)>>

PyStr(c) ==
    CASE c.k = "nan" -> <<"nan">>
      [] c.k = "none" -> <<"None">>
      [] c.k = "str" -> c.s
      [] c.k = "int" -> IF c.n < 0 THEN <<"-">> \o Digitos(-c.n) ELSE Digitos(c.n)
      [] c.k = "float" ->
            LET a == IF c.n < 0 THEN -c.n ELSE c.n
                t == Digitos(a \div 10) \o <<".", Digito(a % 10)>>
            IN IF c.n < 0 THEN <<"-">> \o t ELSE t

----------------------------------------------------------------------------
\* Column conversions of preprocessar

EhDigito(a) == a \in {"0", "1", "2", "3", "4", "5", "6", "7", "8", "9"}

ValorDigito(a) == CHOOSE d \in 0..9 : Digito(d) = a

RECURSIVE ValorDigitos(_)
ValorDigitos(s) ==
    IF s = <<>> THEN 0
    ELSE 10 * ValorDigitos(SubSeq(s, 1, Len(s) - 1)) + ValorDigito(s[Len(s)])

\* pd.to_numeric(col, errors='coerce'): text that is no number becomes NaN
to_numeric(c) ==
    CASE c.k = "str" ->
            IF c.s # <<>> /\ \A j \in 1..Len(c.s) : EhDigito(c.s[j])
            THEN PyInt(ValorDigitos(c.s)) ELSE NaN
      [] c.k = "none" -> NaN
      [] OTHER -> c

\* .fillna(0)
fillna0(c) == IF isna(c) THEN PyInt(0) ELSE c

\* .astype(int): a float is truncated towards zero; the sign is kept
astype_int(c) ==
    IF c.k = "float"
    THEN PyInt(IF c.n < 0 THEN -((-c.n) \div 10) ELSE c.n \div 10)
    ELSE c

\* preprocessing.py lines 8-9, one cell
Contagem(c) == astype_int(fillna0(to_numeric(c)))

\* preprocessing.py lines 11-14, one row: the f-string (or the bare city), then the
\* column-wise  + ", " + gadm_adm0 , which leaves NaN where the left side is NaN
localizacao(x) ==
    LET esq == IF notna(x.adm1) /\ x.adm1 # Str(<<>>)
               THEN Str(PyStr(x.city) \o <<SEP>> \o PyStr(x.adm1))
               ELSE x.city
    IN IF isna(esq) \/ isna(x.adm0) THEN NaNOp
       ELSE Str(PyStr(esq) \o <<SEP>> \o PyStr(x.adm0))

\* preprocessing.py line 4: the country filter
TemPais(x) == notna(x.adm0) /\ x.adm0 # Str(<<>>)

\* preprocessing.py lines 6-14, one row of the filtered table
Normalizar(x) ==
    [x EXCEPT !.is_desconhecido = isna(x.city) \/ isna(x.adm1) \/ isna(x.adm0),
              !.tried = Contagem(x.tried),
              !.deaths = Contagem(x.deaths),
              !.localizacao = localizacao(x)]

\* preprocessar(df): the table it returns
preprocessar(t) ==
    LET f == SelectSeq(t, TemPais)
    IN [j \in 1..Len(f) |-> Normalizar(f[j])]

----------------------------------------------------------------------------
\* Tables

\* one row; id is the index label (position in the loaded table)
Linha(city, adm1, adm0, decade, tried, deaths, lat, lon, loc) ==
    [id |-> 0, city |-> city, adm1 |-> adm1, adm0 |-> adm0, decade |-> decade,
     tried |-> tried, deaths |-> deaths, lat |-> lat, lon |-> lon,
     localizacao |-> loc, is_desconhecido |-> FALSE]

X == Str(<<"x">>)
Y == Str(<<"y">>)
S == Str(<<"s">>)
N == Str(<<"n">>)
M == Str(<<"m">>)
Vazio == Str(<<>>)
D1600 == PyInt(1600)
D1700 == PyInt(1700)
Um == PyFloat(10)
Dois == PyFloat(20)

\* rows of trials.csv (no column localizacao yet: None)
LinhasCSV ==
    {   \* geography: city / gadm_adm1 / gadm_adm0 present, empty or missing
        Linha(X, NaN, N, D1600, PyInt(2), PyInt(1), Um, Um, None),
        Linha(X, S, N, D1600, PyInt(2), PyInt(1), Um, Um, None),
        Linha(X, Vazio, N, D1600, PyInt(2), PyInt(1), Um, Um, None),
        Linha(NaN, S, N, D1600, PyInt(2), PyInt(1), Um, Um, None),
        Linha(NaN, NaN, N, D1600, PyInt(2), PyInt(1), Um, Um, None),
        Linha(X, NaN, NaN, D1600, PyInt(2), PyInt(1), Um, Um, None),
        Linha(X, NaN, Vazio, D1600, PyInt(2), PyInt(1), Um, Um, None),
        Linha(X, NaN, M, D1600, PyInt(2), PyInt(1), Um, Um, None),
        Linha(X, NaN, Str(<<"s", SEP, "n">>), D1600, PyInt(2), PyInt(1), Um, Um, None),
        Linha(Y, NaN, N, D1600, PyInt(2), PyInt(1), Dois, Dois, None),
        \* period: another decade, a missing decade, a label that is also a location key
        Linha(X, NaN, N, D1700, PyInt(2), PyInt(1), Um, Um, None),
        Linha(X, NaN, N, NaN, PyInt(2), PyInt(1), Um, Um, None),
        Linha(X, NaN, N, Str(<<"x", SEP, "n">>), PyInt(2), PyInt(1), Um, Um, None),
        \* counts: negative, text, fractional, zero, missing
        Linha(X, NaN, N, D1600, PyInt(-3), PyInt(1), Um, Um, None),
        Linha(X, NaN, N, D1600, Str(<<"a">>), PyInt(1), Um, Um, None),
        Linha(X, NaN, N, D1600, PyFloat(27), PyFloat(-15), Um, Um, None),
        Linha(X, NaN, N, D1600, PyInt(0), PyInt(0), Um, Um, None),
        Linha(X, NaN, N, D1600, NaN, PyInt(-1), Um, Um, None),
        \* coordinates: other values, one or both missing
        Linha(X, NaN, N, D1600, PyInt(2), PyInt(1), Dois, Um, None),
        Linha(X, NaN, N, D1600, PyInt(2), PyInt(1), NaN, Um, None),
        Linha(X, NaN, N, D1600, PyInt(2), PyInt(1), Um, NaN, None)
    }

XN == Str(<<"x", SEP, "n">>)
YN == Str(<<"y", SEP, "n">>)

\* rows of a table handed to construir_grafo directly (localizacao given, counts integers)
LinhasDiretas ==
    {   Linha(X, NaN, N, D1600, PyInt(2), PyInt(1), Um, Um, XN),
        Linha(Y, NaN, N, D1600, PyInt(3), PyInt(0), Dois, Dois, YN),
        Linha(X, NaN, NaN, D1600, PyInt(2), PyInt(1), Um, Um, XN),
        Linha(Y, NaN, Vazio, D1700, PyInt(2), PyInt(1), Um, Um, YN),
        Linha(X, NaN, N, D1600, PyInt(-3), PyInt(1), Um, Um, XN),
        Linha(X, NaN, N, D1600, PyInt(2), PyInt(-1), Dois, NaN, XN),
        Linha(X, NaN, N, NaN, PyInt(2), PyInt(1), Um, Um, XN),
        Linha(X, NaN, N, XN, PyInt(2), PyInt(1), Um, Um, XN),
        Linha(Y, NaN, N, D1700, PyInt(0), PyInt(0), Dois, Dois, YN)
    }

\* whether the column decade holds text (dtype object) rather than numbers
ColunaObjeto(t) == \E j \in 1..Len(t) : t[j].decade.k = "str"
\* whether the numeric column decade has a missing value (dtype float64, else int64)
ColunaFloat(t) == ~ColunaObjeto(t) /\ \E j \in 1..Len(t) : isna(t[j].decade)

\* pd.read_csv's typing of the column decade: one dtype for the whole column.  With
\* any text in it the column is object and every cell stays text (missing: the
\* parser's NaN); a numeric column with a missing cell is float64.
\* The rows get their index labels.
carregar_dados(t) ==
    [j \in 1..Len(t) |->
        [t[j] EXCEPT
            !.id = j,
            !.decade =
                IF ColunaObjeto(t)
                THEN (IF isna(@) THEN NaNParser
                      ELSE IF @.k = "int" THEN Str(PyStr(@)) ELSE @)
                ELSE IF ColunaFloat(t)
                THEN (IF @.k = "int" THEN PyFloat(10 * @.n) ELSE @)
                ELSE @]]

\* pd.DataFrame(rows) as a caller builds it: a numeric column with a missing cell is
\* float64; an object column keeps the objects it was given
DataFrame(t) ==
    [j \in 1..Len(t) |->
        [t[j] EXCEPT
            !.id = j,
            !.decade =
                IF ColunaObjeto(t)
                THEN (IF isna(@) THEN NaNParser ELSE @)
                ELSE IF ColunaFloat(t)
                THEN (IF @.k = "int" THEN PyFloat(10 * @.n) ELSE @)
                ELSE @]]

\* df.iterrows(): the row handed to the loop body.  A NaN of a float64 column is boxed
\* into a new float object for every row; cells of an object column are the stored
\* objects themselves.
iterrows(t, j) ==
    [t[j] EXCEPT !.decade = IF @ = NaN THEN NaNObj(t[j].id) ELSE @]

----------------------------------------------------------------------------
\* The graph: nx.DiGraph

\* nos: the nodes in insertion order; attr: node -> attribute dict (key -> cell);
\* arestas: the edges <<u, v>> in insertion order; dados: edge -> dict (key -> integer)
GrafoVazio == [nos |-> <<>>, attr |-> <<>>, arestas |-> <<>>, dados |-> <<>>]

Nos(g) == DOMAIN g.attr
Arestas(g) == DOMAIN g.dados

\* mutant: an existing node keeps the attributes it has
add_node_primeiro(g, n, attrs) ==
    IF n \in DOMAIN g.attr
    THEN [g EXCEPT !.attr = [@ EXCEPT ![n] = @ @@ attrs]]
    ELSE [g EXCEPT !.nos = Append(@, n), !.attr = (n :> attrs) @@ @]

\* G.add_node(n, **attrs): a new node gets the dict; an existing one has it updated
add_node(g, n, attrs) ==
    IF n \in Nos(g)
    THEN [g EXCEPT !.attr = [@ EXCEPT ![n] = attrs @@ @]]
    ELSE [g EXCEPT !.nos = Append(@, n), !.attr = (n :> attrs) @@ @]

\* G.has_edge(u, v)
has_edge(g, u, v) == <<u, v>> \in Arestas(g)

\* G.add_edge(u, v, weight=w, mortes=m) for an edge not in the graph (both nodes are)
add_edge(g, u, v, w, m) ==
    [g EXCEPT !.arestas = Append(@, <<u, v>>),
              !.dados = (<<u, v>> :> [weight |-> w, mortes |-> m]) @@ @]

\* mutant: the repeated record overwrites the accumulator
acumular_sobrescreve(g, u, v, w, m) ==
    [g EXCEPT !.dados = [@ EXCEPT ![<<u, v>>] = [weight |-> w, mortes |-> m]]]

\* G.edges[(u, v)]['weight'] += w ; G.edges[(u, v)]['mortes'] += m
acumular(g, u, v, w, m) ==
    [g EXCEPT !.dados = [@ EXCEPT ![<<u, v>>] =
                            [weight |-> @.weight + w, mortes |-> @.mortes + m]]]

Local == Str(<<"local">>)
Decada == Str(<<"decada">>)

\* mutant: only a missing country is skipped, the empty string is not
SemPais_so_nan(row) == isna(row.adm0)

\* graph_builder.py lines 8-9: the row is skipped
SemPais(row) == isna(row.adm0) \/ row.adm0 = Vazio

\* graph_builder.py lines 17-20
AtributosLocal(row) ==
    [tipo |-> Local,
     lat |-> IF notna(row.lat) THEN row.lat ELSE None,
     lon |-> IF notna(row.lon) THEN row.lon ELSE None,
     pais |-> row.adm0]

\* mutant: the edge runs from the period to the location
aresta_invertida(g, origem, decada, julgamentos, mortes) ==
    IF has_edge(g, decada, origem)
    THEN acumular(g, decada, origem, julgamentos, mortes)
    ELSE add_edge(g, decada, origem, julgamentos, mortes)

\* mutant: a record without trials adds its nodes but no edge
aresta_sem_zero(g, origem, decada, julgamentos, mortes) ==
    IF julgamentos = 0 THEN g
    ELSE IF has_edge(g, origem, decada)
    THEN acumular(g, origem, decada, julgamentos, mortes)
    ELSE add_edge(g, origem, decada, julgamentos, mortes)

\* graph_builder.py lines 26-32
aresta(g, origem, decada, julgamentos, mortes) ==
    IF has_edge(g, origem, decada)
    THEN acumular(g, origem, decada, julgamentos, mortes)
    ELSE add_edge(g, origem, decada, julgamentos, mortes)

\* graph_builder.py lines 8-32: the body of the loop for one row
Iteracao(g, row) ==
    IF SemPais(row) THEN g
    ELSE LET origem == row.localizacao
             decada == row.decade
             g1 == add_node(g, origem, AtributosLocal(row))
             g2 == add_node(g1, decada, [tipo |-> Decada])
         IN aresta(g2, origem, decada, row.tried.n, row.deaths.n)

\* construir_grafo(df) after its first k rows
RECURSIVE Construido(_, _)
Construido(t, k) ==
    IF k = 0 THEN GrafoVazio ELSE Iteracao(Construido(t, k - 1), iterrows(t, k))

\* construir_grafo(df)
construir_grafo(t) == Construido(t, Len(t))

----------------------------------------------------------------------------
\* Aggregations over the graph (visualization.py)

RECURSIVE SomaArestas(_, _, _)
\* sum(data.get(campo, 0) for the edges E of g)
SomaArestas(g, E, campo) ==
    IF E = {} THEN 0
    ELSE LET e == CHOOSE x \in E : TRUE
         IN g.dados[e][campo] + SomaArestas(g, E \ {e}, campo)

\* G.out_edges(no) / G.in_edges(no)
out_edges(g, no) == {e \in Arestas(g) : e[1] = no}
in_edges(g, no) == {e \in Arestas(g) : e[2] = no}

\* visualization.py line 44
EhLocalComPais(g, no) == g.attr[no].tipo = Local /\ "pais" \in DOMAIN g.attr[no]

RECURSIVE SomaNos(_, _, _)
\* the per-country accumulation of visualization.py lines 43-49 over the nodes V
SomaNos(g, V, campo) ==
    IF V = {} THEN 0
    ELSE LET no == CHOOSE x \in V : TRUE
         IN SomaArestas(g, out_edges(g, no), campo) + SomaNos(g, V \ {no}, campo)

\* visualization.py lines 51-56: no country has Julgamentos > 0
top_paises_vazio(g) ==
    \A no \in Nos(g) :
        EhLocalComPais(g, no) =>
            SomaNos(g, {m \in Nos(g) : EhLocalComPais(g, m)
                                       /\ g.attr[m].pais = g.attr[no].pais}, "weight") <= 0

\* visualization.py lines 82-87: no location has Julgamentos > 0
top_localizacoes_vazio(g) ==
    \A no \in Nos(g) :
        g.attr[no].tipo = Local => SomaArestas(g, out_edges(g, no), "weight") <= 0

\* str(n).isdigit()
isdigit(c) == LET t == PyStr(c) IN t # <<>> /\ \A j \in 1..Len(t) : EhDigito(t[j])

\* visualization.py lines 107-122: no numeric decade has julgamentos > 0
julgamentos_por_decada_vazio(g) ==
    \A no \in Nos(g) :
        (g.attr[no].tipo = Decada /\ isdigit(no)) =>
            SomaArestas(g, in_edges(g, no), "weight") <= 0

\* the permutations of 1..n
Perms(n) == {p \in [1..n -> 1..n] : \A a, b \in 1..n : p[a] = p[b] => a = b}

RECURSIVE Soma(_, _)
\* the sum of f over the set J
Soma(f, J) == IF J = {} THEN 0 ELSE LET j == CHOOSE x \in J : TRUE IN f[j] + Soma(f, J \ {j})

\* What a function that builds a table does: it returns the table (its rows in
\* order) or raises
KeyError == [erro |-> TRUE, linhas |-> <<>>]
Tabela(linhas) == [erro |-> FALSE, linhas |-> linhas]

\* A float that is the quotient of two integers: num / den; the special values of a
\* numpy division by zero have k "nan", "inf" or "-inf"
Razao(num, den) == [k |-> "finito", num |-> num, den |-> den]
\* the int 0 of  ... if dados['Julgamentos'] > 0 else 0
Zero == Razao(0, 1)

\* the default of the parameter n of top_paises and top_localizacoes
NPadrao == 10

\* dict.get(chave): None when the key is absent
get(d, chave) == IF chave \in DOMAIN d THEN d[chave] ELSE None

\* mutant: the accumulator of a key takes the sums of the last node of the key
somar_em_sobrescreve(acc, chave, julgamentos, mortes) ==
    IF \E q \in 1..Len(acc) : acc[q].chave = chave
    THEN [q \in 1..Len(acc) |->
             IF acc[q].chave = chave
             THEN [acc[q] EXCEPT !.Julgamentos = julgamentos, !.Mortes = mortes]
             ELSE acc[q]]
    ELSE Append(acc, [chave |-> chave, Julgamentos |-> julgamentos, Mortes |-> mortes])

\* paises[chave]['Julgamentos'] += julgamentos ; paises[chave]['Mortes'] += mortes
\* on a defaultdict (a sequence of entries in key insertion order): the first access
\* of a key inserts it with zeros
somar_em(acc, chave, julgamentos, mortes) ==
    IF \E q \in 1..Len(acc) : acc[q].chave = chave
    THEN [q \in 1..Len(acc) |->
             IF acc[q].chave = chave
             THEN [acc[q] EXCEPT !.Julgamentos = @ + julgamentos, !.Mortes = @ + mortes]
             ELSE acc[q]]
    ELSE Append(acc, [chave |-> chave, Julgamentos |-> julgamentos, Mortes |-> mortes])

RECURSIVE paises_ate(_, _)
\* visualization.py lines 42-49: the dict paises after the first k nodes of G.nodes()
paises_ate(g, k) ==
    IF k = 0 THEN <<>>
    ELSE LET no == g.nos[k]
             ant == paises_ate(g, k - 1)
         IN IF EhLocalComPais(g, no)
            THEN somar_em(ant, g.attr[no].pais,
                          SomaArestas(g, out_edges(g, no), "weight"),
                          SomaArestas(g, out_edges(g, no), "mortes"))
            ELSE ant

RECURSIVE locais_ate(_, _)
\* visualization.py lines 74-80: the dict locais_data after the first k nodes
locais_ate(g, k) ==
    IF k = 0 THEN <<>>
    ELSE LET no == g.nos[k]
             ant == locais_ate(g, k - 1)
         IN IF g.attr[no].tipo = Local
            THEN somar_em(ant, no,
                          SomaArestas(g, out_edges(g, no), "weight"),
                          SomaArestas(g, out_edges(g, no), "mortes"))
            ELSE ant

\* mutant: every entry gets a row
com_julgamentos_todas(dados) == TRUE

\* the condition of the list comprehensions: if dados['Julgamentos'] > 0
com_julgamentos(dados) == dados.Julgamentos > 0

\* visualization.py lines 51-56 / 82-87: the rows handed to pd.DataFrame
linhas_ranking(acc) ==
    LET sel == SelectSeq(acc, com_julgamentos)
    IN [q \in 1..Len(sel) |->
           [chave |-> sel[q].chave,
            Julgamentos |-> sel[q].Julgamentos,
            Mortes |-> sel[q].Mortes,
            Taxa |-> IF sel[q].Julgamentos > 0
                     THEN Razao(sel[q].Mortes, sel[q].Julgamentos) ELSE Zero]]

\* DataFrame.sort_values('Julgamentos', ascending=False).  The default kind is
\* 'quicksort', which is not stable: the outcome is any order of the rows that is
\* non-increasing in Julgamentos (which one depends on the numpy build and on the
\* table's size); rows with equal Julgamentos may come out in any order.
sort_values(linhas) ==
    {[q \in 1..Len(linhas) |-> linhas[p[q]]] :
        p \in {p \in Perms(Len(linhas)) :
                  \A a, b \in 1..Len(linhas) :
                      a < b => linhas[p[a]].Julgamentos >= linhas[p[b]].Julgamentos}}

\* DataFrame.head(n), n >= 0
head(t, n) == SubSeq(t, 1, IF n < Len(t) THEN n ELSE Len(t))

\* pd.DataFrame(rows).sort_values('Julgamentos', ascending=False).head(n): the
\* outcomes.  A DataFrame made of no row has no column, and sort_values raises
\* KeyError: 'Julgamentos'.
ranking(acc, n) ==
    LET linhas == linhas_ranking(acc)
    IN IF linhas = <<>> THEN {KeyError}
       ELSE {Tabela(head(o, n)) : o \in sort_values(linhas)}

\* top_paises(df, G, n): the outcomes (row key: the country)
top_paises(g, n) == ranking(paises_ate(g, Len(g.nos)), n)

\* top_localizacoes(df, G, n): the outcomes (row key: the node)
top_localizacoes(g, n) == ranking(locais_ate(g, Len(g.nos)), n)

RECURSIVE sorted_ate(_, _, _)
\* sorted(seq, key=chave) after its first m elements: Python's sort is stable, an
\* element goes behind all the elements whose key is not greater
sorted_ate(seq, chave, m) ==
    IF m = 0 THEN <<>>
    ELSE LET s == sorted_ate(seq, chave, m - 1)
             x == seq[m]
             pos == Cardinality({q \in 1..Len(s) : chave[s[q]] <= chave[x]})
         IN SubSeq(s, 1, pos) \o <<x>> \o SubSeq(s, pos + 1, Len(s))

\* sorted(seq, key=chave); chave is a function on the elements
sorted(seq, chave) == sorted_ate(seq, chave, Len(seq))

\* mutant: the ascending order read backwards (equal keys come out reversed)
sorted_reverse_invertida(seq, chave) ==
    LET s == sorted(seq, chave) IN [q \in 1..Len(s) |-> s[Len(s) + 1 - q]]

\* sorted(seq, key=chave, reverse=True): descending, equal keys in their original order
sorted_reverse(seq, chave) ==
    sorted(seq, [x \in DOMAIN chave |-> 0 - chave[x]])

\* int(x) of a node that passed str(x).isdigit()
int(c) == IF c.k = "int" THEN c.n ELSE ValorDigitos(PyStr(c))

\* visualization.py lines 107-110
decadas(g) ==
    LET sel == SelectSeq(g.nos, LAMBDA no : g.attr[no].tipo = Decada /\ isdigit(no))
    IN sorted(sel, [no \in Nos(g) |-> IF isdigit(no) THEN int(no) ELSE 0])

\* visualization.py lines 112-122
ts_data(g) ==
    LET sel == SelectSeq(decadas(g),
                         LAMBDA no : SomaArestas(g, in_edges(g, no), "weight") > 0)
    IN [q \in 1..Len(sel) |->
           LET julgamentos == SomaArestas(g, in_edges(g, sel[q]), "weight")
               mortes == SomaArestas(g, in_edges(g, sel[q]), "mortes")
           IN [no |-> sel[q],
               Decada |-> int(sel[q]),
               Julgamentos |-> julgamentos,
               Mortes |-> mortes,
               Taxa |-> Razao(mortes, julgamentos)]]

\* julgamentos_por_decada(df, G).  set_index('Década') on the DataFrame made of no
\* row raises KeyError; sort_index leaves an index that is already increasing as it is.
julgamentos_por_decada(g) ==
    IF ts_data(g) = <<>> THEN KeyError ELSE Tabela(ts_data(g))

\* mutant: the latitude alone makes a location complete
TemCoordenadas_so_lat(g, no) ==
    /\ get(g.attr[no], "tipo") = Local
    /\ get(g.attr[no], "lat") # None

\* visualization.py lines 141-144
TemCoordenadas(g, no) ==
    /\ get(g.attr[no], "tipo") = Local
    /\ get(g.attr[no], "lat") # None
    /\ get(g.attr[no], "lon") # None

\* distribuir_geograficamente(df, G)
distribuir_geograficamente(g) ==
    LET locais == SelectSeq(g.nos, LAMBDA no : TemCoordenadas(g, no))
    IN Tabela([q \in 1..Len(locais) |->
                  [Local |-> locais[q],
                   Julgamentos |-> SomaArestas(g, out_edges(g, locais[q]), "weight"),
                   Mortes |-> SomaArestas(g, out_edges(g, locais[q]), "mortes"),
                   Latitude |-> g.attr[locais[q]].lat,
                   Longitude |-> g.attr[locais[q]].lon,
                   Pais |-> g.attr[locais[q]].pais]])

----------------------------------------------------------------------------
\* Totals of the table (analysis.py)

RECURSIVE sum(_, _)
\* df[coluna].sum()
sum(t, coluna) ==
    IF t = <<>> THEN 0
    ELSE t[Len(t)][coluna].n + sum(SubSeq(t, 1, Len(t) - 1), coluna)

total_julgamentos(t) == sum(t, "tried")
total_mortes(t) == sum(t, "deaths")

\* the quotient of two numpy int64: a zero divisor raises nothing, the result is
\* nan (0 / 0) or an infinity, with a RuntimeWarning
truediv(a, b) ==
    IF b # 0 THEN Razao(a, b)
    ELSE [k |-> IF a = 0 THEN "nan" ELSE IF a > 0 THEN "inf" ELSE "-inf",
          num |-> a, den |-> 0]

\* taxa_mortalidade(df): the sums are numpy integers, so the except clause for
\* ZeroDivisionError is never entered
taxa_mortalidade(t) == truediv(total_mortes(t), total_julgamentos(t))

\* calcular_taxas_mortalidade_geral(df)
calcular_taxas_mortalidade_geral(t) ==
    IF t = <<>>
    THEN [total_j |-> None, total_m |-> None, taxa |-> None]
    ELSE [total_j |-> PyInt(total_julgamentos(t)),
          total_m |-> PyInt(total_mortes(t)),
          taxa |-> taxa_mortalidade(t)]

\* executar_analise_completa(df, G): the outcomes; the first aggregation that raises
\* ends it
executar_analise_completa(t, g) ==
    IF \/ KeyError \in top_paises(g, NPadrao)
       \/ KeyError \in top_localizacoes(g, NPadrao)
       \/ julgamentos_por_decada(g) = KeyError
    THEN {[erro |-> TRUE]}
    ELSE {[erro |-> FALSE,
           top_paises |-> a.linhas,
           top_localizacoes |-> b.linhas,
           analise_temporal |-> julgamentos_por_decada(g).linhas,
           distribuicao_geografica |-> distribuir_geograficamente(g).linhas,
           taxas_mortalidade_geral |-> calcular_taxas_mortalidade_geral(t)] :
              a \in top_paises(g, NPadrao), b \in top_localizacoes(g, NPadrao)}

----------------------------------------------------------------------------
\* Measures of the graph (graph_analysis.py, networkx on the DiGraph)

\* mutant: the out-degree alone
degree_saida(g, no) == Cardinality(out_edges(g, no))

\* G.degree(no) of a DiGraph: in-degree + out-degree (a self-loop counts in both)
degree(g, no) == Cardinality(in_edges(g, no)) + Cardinality(out_edges(g, no))

\* dict(G.degree()); its keys are in the order of G.nodes()
graus(g) == [no \in Nos(g) |-> degree(g, no)]

\* nx.degree_centrality(G): 1 for every node when the graph has at most one node,
\* else degree * (1 / (len(G) - 1))
degree_centrality(g) ==
    [no \in Nos(g) |->
        IF Len(g.nos) <= 1 THEN Razao(1, 1)
        ELSE Razao(degree(g, no), Len(g.nos) - 1)]

\* the number of rows the degree listings show
Top5 == 5

\* graph_analysis.py lines 43-46: sorted(grau.items(), key=lambda x: x[1],
\* reverse=True)[:5]; the values of one graph have one positive denominator, so
\* their order is the order of the numerators
analisar_centralidades_grau(g) ==
    head(sorted_reverse(g.nos, [no \in Nos(g) |-> degree_centrality(g)[no].num]), Top5)

\* graph_analysis.py lines 27-28: sorted(graus.items(), key=lambda x: x[1],
\* reverse=True)[:top_n]
mostrar_nos_com_maior_grau(g, top_n) == head(sorted_reverse(g.nos, graus(g)), top_n)

\* graph_analysis.py line 22: max(centralidade, key=centralidade.get), the first node
\* of the dict with the largest value; None for the empty graph
mais_central(g) ==
    IF g.nos = <<>> THEN None
    ELSE LET c == degree_centrality(g)
             q == CHOOSE q \in 1..Len(g.nos) :
                     /\ \A r \in 1..Len(g.nos) : c[g.nos[r]].num <= c[g.nos[q]].num
                     /\ \A r \in 1..(q - 1) : c[g.nos[r]].num < c[g.nos[q]].num
         IN g.nos[q]

\* the adjacency a traversal follows: node -> set of next nodes
succ(g) == [no \in Nos(g) |-> {e[2] : e \in out_edges(g, no)}]
pred(g) == [no \in Nos(g) |-> {e[1] : e \in in_edges(g, no)}]
\* G.to_undirected(): every edge is followed both ways
to_undirected(g) == [no \in Nos(g) |-> succ(g)[no] \cup pred(g)[no]]

RECURSIVE camada(_, _, _)
\* breadth-first search from s: the nodes at distance exactly d
camada(adj, s, d) ==
    IF d = 0 THEN {s}
    ELSE (UNION {adj[u] : u \in camada(adj, s, d - 1)})
            \ (UNION {camada(adj, s, c) : c \in 0..(d - 1)})

\* the length of a shortest path from s to t, -1 when there is none
distancia(adj, s, t) ==
    LET D == {d \in 0..(Cardinality(DOMAIN adj) - 1) : t \in camada(adj, s, d)}
    IN IF D = {} THEN 0 - 1 ELSE CHOOSE d \in D : TRUE

\* closeness of one node over the adjacency the search follows (Wasserman-Faust
\* scaling): ((r / totsp) * (r / (N - 1))) with r the number of other nodes found,
\* 0.0 when none is found
closeness_de(adj, no) ==
    LET sp == {t \in DOMAIN adj : distancia(adj, no, t) >= 0}
        totsp == Soma([t \in sp |-> distancia(adj, no, t)], sp)
        r == Cardinality(sp) - 1
        len_G == Cardinality(DOMAIN adj)
    IN IF totsp > 0 /\ len_G > 1
       THEN Razao(r * r, totsp * (len_G - 1))
       ELSE Razao(0, 1)

\* nx.closeness_centrality(G) of a DiGraph: the search runs on G.reverse(), the
\* distances are the incoming ones
closeness_centrality(g) == [no \in Nos(g) |-> closeness_de(pred(g), no)]

RECURSIVE sigma(_, _, _)
\* the number of shortest paths from s to t
sigma(adj, s, t) ==
    IF s = t THEN 1
    ELSE LET d == distancia(adj, s, t)
             W == {w \in DOMAIN adj : t \in adj[w] /\ distancia(adj, s, w) = d - 1}
         IN IF d < 0 THEN 0 ELSE Soma([w \in W |-> sigma(adj, s, w)], W)

\* the sum of two quotients
Mais(a, b) == Razao(a.num * b.den + b.num * a.den, a.den * b.den)

RECURSIVE SomaRazao(_, _)
SomaRazao(f, P) ==
    IF P = {} THEN Razao(0, 1)
    ELSE LET x == CHOOSE x \in P : TRUE IN Mais(f[x], SomaRazao(f, P \ {x}))

\* shortest-path betweenness of one node (Brandes, normalized, endpoints excluded):
\* the sum over the ordered pairs (s, t) of the fraction of the shortest s-t paths
\* that pass through the node, times 1 / ((N - 1)(N - 2)) when N > 2
betweenness_de(adj, no) ==
    LET len_G == Cardinality(DOMAIN adj)
        P == {x \in (DOMAIN adj) \X (DOMAIN adj) :
                 /\ x[1] # x[2] /\ x[1] # no /\ x[2] # no
                 /\ distancia(adj, x[1], x[2]) >= 0}
        f == [x \in P |->
                IF /\ distancia(adj, x[1], no) >= 0
                   /\ distancia(adj, no, x[2]) >= 0
                   /\ distancia(adj, x[1], no) + distancia(adj, no, x[2])
                         = distancia(adj, x[1], x[2])
                THEN Razao(sigma(adj, x[1], no) * sigma(adj, no, x[2]),
                           sigma(adj, x[1], x[2]))
                ELSE Razao(0, 1)]
        b == SomaRazao(f, P)
    IN IF len_G > 2 THEN Razao(b.num, b.den * (len_G - 1) * (len_G - 2)) ELSE b

\* nx.betweenness_centrality(G) of a DiGraph: directed shortest paths
betweenness_centrality(g) == [no \in Nos(g) |-> betweenness_de(succ(g), no)]

\* mutant: the search follows the edges forwards only
vizinhos_fracos_direcionado(g) == succ(g)

\* the adjacency nx.weakly_connected_components searches: successors and predecessors
vizinhos_fracos(g) == to_undirected(g)

\* the nodes a breadth-first search from s finds
alcance(adj, s) == UNION {camada(adj, s, d) : d \in 0..(Cardinality(DOMAIN adj) - 1)}

RECURSIVE componentes_ate(_, _)
\* nx.weakly_connected_components(G) after the first k nodes of G: a node not seen
\* yet starts a component, the set its search finds
componentes_ate(g, k) ==
    IF k = 0 THEN <<>>
    ELSE LET ant == componentes_ate(g, k - 1)
             no == g.nos[k]
         IN IF \E q \in 1..Len(ant) : no \in ant[q] THEN ant
            ELSE Append(ant, alcance(vizinhos_fracos(g), no))

\* list(nx.weakly_connected_components(G)), in the order of discovery
weakly_connected_components(g) == componentes_ate(g, Len(g.nos))

\* graph_analysis.py lines 17-18: max(componentes, key=len), the first of the largest;
\* the empty set stands for "no component" (the variable is not assigned)
maior_componente(g) ==
    LET cs == weakly_connected_components(g)
    IN IF cs = <<>> THEN {}
       ELSE cs[CHOOSE q \in 1..Len(cs) :
                  /\ \A r \in 1..Len(cs) : Cardinality(cs[r]) <= Cardinality(cs[q])
                  /\ \A r \in 1..(q - 1) : Cardinality(cs[r]) < Cardinality(cs[q])]

\* graph_analysis.py line 34
isolados(g) == SelectSeq(g.nos, LAMBDA no : degree(g, no) = 0)

\* mutant: the density of an undirected graph
density_nao_direcionado(g) ==
    LET n == Cardinality(Nos(g))
        m == Cardinality(Arestas(g))
    IN IF m = 0 \/ n <= 1 THEN Razao(0, 1) ELSE Razao(2 * m, n * (n - 1))

\* nx.density(G) of a DiGraph: 0 without edges or with at most one node, else
\* m / (n * (n - 1))
density(g) ==
    LET n == Cardinality(Nos(g))
        m == Cardinality(Arestas(g))
    IN IF m = 0 \/ n <= 1 THEN Razao(0, 1) ELSE Razao(m, n * (n - 1))

\* graph_analysis.py line 83
locais(g) == SelectSeq(g.nos, LAMBDA no : get(g.attr[no], "tipo") = Local)

\* graph_analysis.py line 84: the edges of G.subgraph(locais).to_undirected(), as
\* sets of end nodes (a self-loop is a set of one node)
subgrafo(g) ==
    {{e[1], e[2]} : e \in {x \in Arestas(g) :
                             /\ get(g.attr[x[1]], "tipo") = Local
                             /\ get(g.attr[x[2]], "tipo") = Local}}

\* what detectar_comunidades returns: the list comunidades and the dict
\* node_to_community (the caller's flag picks one of them)
Comunidades(lista) ==
    [comunidades |-> lista,
     node_to_community |->
        [no \in UNION {lista[q] : q \in 1..Len(lista)} |->
            (CHOOSE q \in 1..Len(lista) :
                no \in lista[q] /\ \A r \in (q + 1)..Len(lista) : no \notin lista[r]) - 1]]

\* one community per node, in the order of the nodes
unitarias(nos) == [q \in 1..Len(nos) |-> {nos[q]}]

\* greedy_modularity_communities on a graph in which no edge joins two different
\* nodes (only such pairs are candidates for a merge): the outcomes.  Without any
\* edge the networkx releases differ: the newer ones return one community per node,
\* the older ones divide by the number of edges and raise ZeroDivisionError, which
\* detectar_comunidades catches (lines 103-105) to return the empty result.
greedy_modularity_communities(nos, arestas) ==
    CASE arestas = {} -> {Comunidades(unitarias(nos)), Comunidades(<<>>)}
      [] arestas # {} /\ \A a \in arestas : Cardinality(a) = 1 ->
            {Comunidades(unitarias(nos))}

\* detectar_comunidades(G): the outcomes
detectar_comunidades(g) ==
    IF locais(g) = <<>> THEN {Comunidades(<<>>)}
    ELSE greedy_modularity_communities(locais(g), subgrafo(g))

----------------------------------------------------------------------------
\* main()

Tabelas(linhas) == UNION {[1..n -> linhas] : n \in 0..MaxRows}

Init ==
    /\ \/ /\ modo = "main"
          /\ \E t \in Tabelas(LinhasCSV) : csv = carregar_dados(t)
          /\ pc = "preprocessar"
       \/ /\ modo = "direto"
          /\ \E t \in Tabelas(LinhasDiretas) : csv = DataFrame(t)
          /\ pc = "construir"
    /\ df = csv
    /\ i = 1
    /\ G = GrafoVazio
    /\ resultados = <<>>

\* main.py line 24.  On a table the country filter leaves empty, df.apply(axis=1)
\* returns a DataFrame, not a Series, and the assignment to df['localizacao'] raises
\* in the pandas versions that refuse a frame for a single column; the others go on
\* with the empty table.
Preprocessar ==
    /\ pc = "preprocessar"
    /\ \/ /\ df' = preprocessar(df)
          /\ pc' = "construir"
       \/ /\ SelectSeq(df, TemPais) = <<>>
          /\ df' = df
          /\ pc' = "erro"
    /\ UNCHANGED <<modo, csv, i, G, resultados>>

\* graph_builder.py lines 7-32: one iteration of the loop
ConstruirIteracao ==
    /\ pc = "construir"
    /\ i <= Len(df)
    /\ G' = Iteracao(G, iterrows(df, i))
    /\ i' = i + 1
    /\ UNCHANGED <<modo, csv, df, pc, resultados>>

\* graph_builder.py lines 34-38: the loop is over, the graph is returned
ConstruirRetorno ==
    /\ pc = "construir"
    /\ i > Len(df)
    /\ pc' = IF modo = "main" THEN "visualizacoes" ELSE "analises"
    /\ UNCHANGED <<modo, csv, df, i, G, resultados>>

\* main.py lines 37-56: idxmax of an empty value_counts / groupby raises ValueError
\* (both drop NaN decades), iloc[0] of an empty df_valid raises IndexError; main's
\* except clause ends the run
Visualizacoes ==
    /\ pc = "visualizacoes"
    /\ pc' = IF /\ \E j \in 1..Len(df) : notna(df[j].decade)
                /\ \E j \in 1..Len(df) : df[j].tried.n > 0
             THEN "analises" ELSE "erro"
    /\ UNCHANGED <<modo, csv, df, i, G, resultados>>

\* mutant: detectar_comunidades narrows the graph itself to its 'local' nodes
Analises_sem_copia ==
    /\ pc = "analises"
    /\ pc' = IF modo = "main" THEN "resumo" ELSE "fim"
    /\ G' = [G EXCEPT !.nos = locais(G)]
    /\ UNCHANGED <<modo, csv, df, i, resultados>>

\* main.py lines 60-67 (in the direct mode: the caller hands the table and the graph
\* to executar_analise_completa): the aggregations, then the listings of
\* graph_analysis.py, which only print.  An aggregation that raises ends the run
\* (main's except clause).
Analises ==
    /\ pc = "analises"
    /\ \E r \in executar_analise_completa(df, G) :
          IF r.erro
          THEN pc' = "erro" /\ UNCHANGED resultados
          ELSE /\ pc' = IF modo = "main" THEN "resumo" ELSE "fim"
               /\ resultados' = r
    /\ UNCHANGED <<modo, csv, df, i, G>>

\* main.py lines 69-98: the summary is printed and the scikit-learn analyses of the
\* table run; they are outside this model and may raise
Resumo ==
    /\ pc = "resumo"
    /\ \/ pc' = "fim"
       \/ pc' = "erro"
    /\ UNCHANGED <<modo, csv, df, i, G, resultados>>

Next ==
    \/ Preprocessar
    \/ ConstruirIteracao
    \/ ConstruirRetorno
    \/ Visualizacoes
    \/ Analises
    \/ Resumo

Spec == Init /\ [][Next]_vars

----------------------------------------------------------------------------
\* Vocabulary of the properties

\* the rows construir_grafo has processed so far
Processadas == 1..(i - 1)
\* ... and among them those it did not skip
Aceitas == {j \in Processadas : ~SemPais(df[j])}
\* the loop is over (the graph is the one construir_grafo returns)
Construiu == pc \in {"visualizacoes", "analises", "resumo", "fim"} \/ (pc = "construir" /\ i > Len(df))

\* the ordered pair (location key, period) of row j, as the loop body sees it
Par(t, j) == <<iterrows(t, j).localizacao, iterrows(t, j).decade>>

Tried(t) == [j \in 1..Len(t) |-> t[j].tried.n]
Deaths(t) == [j \in 1..Len(t) |-> t[j].deaths.n]

Imagem(seq) == {seq[j] : j \in 1..Len(seq)}

\* C1: in every state of the build there is at most one edge per ordered (location
\* key, period) pair; every accepted record processed so far has the edge of its pair,
\* every edge is the pair of some accepted record, and the edge's weight / mortes is
\* the sum of tried / deaths over exactly the accepted records processed so far that
\* have that pair (pairs compared as Python compares dictionary keys).
C1_Soma ==
    /\ Len(G.arestas) = Cardinality(Imagem(G.arestas))
    /\ Imagem(G.arestas) = Arestas(G)
    /\ \A j \in Aceitas : Par(df, j) \in Arestas(G)
    /\ \A e \in Arestas(G) :
          LET J == {j \in Aceitas : Par(df, j) = e}
          IN /\ J # {}
             /\ G.dados[e].weight = Soma(Tried(df), J)
             /\ G.dados[e].mortes = Soma(Deaths(df), J)

\* C1 witness: two accepted records with nonzero counts were added to one edge
C1_Witness ==
    \E j1 \in Aceitas, j2 \in Aceitas :
        /\ j1 # j2
        /\ Par(df, j1) = Par(df, j2)
        /\ df[j1].tried.n # 0 /\ df[j2].tried.n # 0
        /\ G.dados[Par(df, j1)].weight = df[j1].tried.n + df[j2].tried.n

\* C2: when the loop of construir_grafo processes a record whose gadm_adm0 is missing
\* or '', the graph after the step is the graph before it (nodes, attributes, edges,
\* edge data, and their order).
C2_SemPaisNaoAltera ==
    [][(pc = "construir" /\ i <= Len(df)
        /\ (isna(df[i].adm0) \/ df[i].adm0 = Vazio)) => G' = G]_vars

\* C2 witness: construir_grafo has processed a record with a blank country after
\* having built nodes and an edge, and the graph still has them
C2_Witness ==
    /\ pc = "construir"
    /\ i = 3
    /\ ~SemPais(df[1])
    /\ df[2].adm0 = Vazio
    /\ Len(G.nos) = 2 /\ Len(G.arestas) = 1

\* C3: the graph construir_grafo returns has the same node set, the same edge set and
\* the same (weight, mortes) on every edge as the graph it builds from any other
\* ordering of the same records.
C3_OrdemIndiferente ==
    Construiu =>
        \A p \in Perms(Len(df)) :
            LET h == construir_grafo([j \in 1..Len(df) |-> df[p[j]]])
            IN /\ Nos(h) = Nos(G)
               /\ Arestas(h) = Arestas(G)
               /\ \A e \in Arestas(G) : h.dados[e] = G.dados[e]

\* C3 witness: the returned graph was built from two records of one edge with
\* different counts
C3_Witness ==
    /\ Construiu
    /\ \E j1 \in Aceitas, j2 \in Aceitas :
          /\ j1 # j2
          /\ Par(df, j1) = Par(df, j2)
          /\ df[j1].tried.n # df[j2].tried.n

\* the accepted records processed so far whose location key is node n
DoLocal(n) == {j \in Aceitas : df[j].localizacao = n}
Primeira(J) == CHOOSE j \in J : \A k \in J : j <= k
Ultima(J) == CHOOSE j \in J : \A k \in J : k <= j

\* the coordinate / country attributes the record of row j carries
Coord(c) == IF c.k = "nan" THEN None ELSE c
Geo(j) == <<df[j].adm0, Coord(df[j].lat), Coord(df[j].lon)>>
GeoDoNo(n) == <<G.attr[n].pais, G.attr[n].lat, G.attr[n].lon>>

\* C4 as claimed: in every state of the build a Location node has the country,
\* latitude and longitude of the first record processed for its key.
C4_PrimeiroVence ==
    \A j \in Aceitas :
        LET n == df[j].localizacao
        IN n \in Nos(G) /\ GeoDoNo(n) = Geo(Primeira(DoLocal(n)))

\* C4 amended: in every state of the build a Location node has the country, latitude
\* and longitude (None for a missing coordinate) of the last record processed for its
\* key: every accepted record rewrites them.
C4_UltimoVence ==
    \A j \in Aceitas :
        LET n == df[j].localizacao
        IN n \in Nos(G) /\ GeoDoNo(n) = Geo(Ultima(DoLocal(n)))

\* C4 witness: a node was written twice with different coordinates and has the later ones
C4_Witness ==
    \E j \in Aceitas :
        LET n == df[j].localizacao
            a == Primeira(DoLocal(n))
            b == Ultima(DoLocal(n))
        IN a # b /\ Geo(a) # Geo(b) /\ GeoDoNo(n) = Geo(b)

\* C5 as claimed: no step changes the tipo of a node that exists, and after every step
\* every edge runs from a node of tipo 'local' to a node of tipo 'decada'.
C5_TipoImutavel ==
    [][/\ \A n \in Nos(G) : n \in Nos(G') /\ G'.attr[n].tipo = G.attr[n].tipo
       /\ \A e \in Arestas(G') :
             G'.attr[e[1]].tipo = Local /\ G'.attr[e[2]].tipo = Decada]_vars

\* df is a table preprocessar returned
Normalizada == modo = "main" /\ df = preprocessar(csv)

\* C6 as claimed: every record of a table preprocessar returns has non-negative
\* integers tried and deaths, and every edge built from it has weight >= 0 and
\* mortes >= 0.
C6_NaoNegativos ==
    Normalizada =>
        /\ \A j \in 1..Len(df) :
              /\ df[j].tried.k = "int" /\ df[j].tried.n >= 0
              /\ df[j].deaths.k = "int" /\ df[j].deaths.n >= 0
        /\ \A e \in Arestas(G) : G.dados[e].weight >= 0 /\ G.dados[e].mortes >= 0

Negativo(row) == row.tried.n < 0 \/ row.deaths.n < 0

\* C7 as claimed: when the loop of construir_grafo is at a record with a known country
\* whose tried or deaths is negative, the step fails (the run ends in the error state)
\* and no edge data changes.
C7_NegativoFalha ==
    [][(pc = "construir" /\ i <= Len(df) /\ ~SemPais(df[i]) /\ Negativo(df[i]))
        => (pc' = "erro" /\ G'.dados = G.dados)]_vars

\* the records of t without those that violate data integrity (a negative count)
SemNegativos(t) == SelectSeq(t, LAMBDA r : ~Negativo(r))

\* C8 as claimed: the graph construir_grafo returns is the graph of the records
\* without the failing ones (each failing record skipped, every other one inserted),
\* and the run goes on to the analyses instead of ending in the error state.
C8_FalhaPorRegistro ==
    (Construiu \/ (pc = "erro" /\ Normalizada)) =>
        /\ LET h == construir_grafo(SemNegativos(df))
           IN /\ Nos(h) = Nos(G)
              /\ Arestas(h) = Arestas(G)
              /\ \A e \in Arestas(G) : h.dados[e] = G.dados[e]
        /\ ((\E j \in 1..Len(df) : Negativo(df[j])) => pc # "erro")

\* the accepted records processed so far with location key n and a missing period
SemPeriodo(n) == {j \in Aceitas : df[j].localizacao = n /\ isna(df[j].decade)}

\* C9 as claimed: preprocessar keeps every record with a known country, whatever its
\* period; a processed record with a known country and a missing period has its
\* Location node and exactly one edge from it to a node of the missing period, a node
\* of tipo 'decada', and that edge carries the sums over all the processed records
\* with that location key and a missing period.
C9_PeriodoDesconhecido ==
    /\ Normalizada => \A j \in 1..Len(csv) :
                         TemPais(csv[j]) => \E k \in 1..Len(df) : df[k].id = j
    /\ \A j \in Aceitas :
          isna(df[j].decade) =>
              LET n == df[j].localizacao
                  E == {e \in Arestas(G) : e[1] = n /\ isna(e[2])}
              IN /\ n \in Nos(G)
                 /\ Cardinality(E) = 1
                 /\ \A e \in E :
                       /\ G.attr[e[2]].tipo = Decada
                       /\ G.dados[e].weight = Soma(Tried(df), SemPeriodo(n))
                       /\ G.dados[e].mortes = Soma(Deaths(df), SemPeriodo(n))

\* a field that is there: neither missing nor the empty string
Presente(c) == c.k = "str" /\ c.s # <<>>

\* the key the claim describes: the city if present, else the subregion, else the
\* country alone, followed by the subregion and the country when available
ChaveDescrita(x) ==
    LET cidade == IF Presente(x.city) THEN x.city.s \o <<SEP>> ELSE <<>>
        sub == IF Presente(x.adm1) THEN x.adm1.s \o <<SEP>> ELSE <<>>
    IN Str(cidade \o sub \o x.adm0.s)

\* C10 as claimed: every record of a table preprocessar returns has the described key,
\* a text naming its subregion and country also when the city is missing; and two
\* records with the same city and different countries have different keys.
C10_Chave ==
    Normalizada =>
        /\ \A j \in 1..Len(df) : df[j].localizacao = ChaveDescrita(df[j])
        /\ \A j, k \in 1..Len(df) :
              (Presente(df[j].city) /\ df[j].city = df[k].city /\ df[j].adm0 # df[k].adm0)
                  => df[j].localizacao # df[k].localizacao

----------------------------------------------------------------------------
\* Vocabulary of the properties of the aggregations

\* the values of n the rankings are asked for
Enes == 0..MaxTop \cup {NPadrao}

\* the Location nodes of country c
LocaisDoPais(c) ==
    {no \in Nos(G) : G.attr[no].tipo = Local /\ "pais" \in DOMAIN G.attr[no]
                     /\ G.attr[no].pais = c}
\* the countries of the Location nodes
Paises == {G.attr[no].pais : no \in {m \in Nos(G) : G.attr[m].tipo = Local}}
\* the Location nodes
Locais == {no \in Nos(G) : G.attr[no].tipo = Local}

\* the sum of an edge field over the edges leaving the nodes V / entering the node no
Saindo(V, campo) ==
    LET E == {e \in Arestas(G) : e[1] \in V}
    IN Soma([e \in E |-> G.dados[e][campo]], E)
Entrando(no, campo) ==
    LET E == {e \in Arestas(G) : e[2] = no}
    IN Soma([e \in E |-> G.dados[e][campo]], E)

\* the rate x is the quotient m / j
EhQuociente(x, m, j) == x.k = "finito" /\ x.den # 0 /\ j # 0 /\ x.num * j = m * x.den

\* row r of a ranking carries the sums over the edges leaving the nodes V
LinhaCerta(r, V) ==
    /\ r.Julgamentos = Saindo(V, "weight")
    /\ r.Mortes = Saindo(V, "mortes")
    /\ EhQuociente(r.Taxa, Saindo(V, "mortes"), Saindo(V, "weight"))

\* C11: when the aggregations are called, every row of every table top_paises can
\* return (for any n) has as trials the sum of the weights of all the edges leaving
\* the Location nodes of the row's country, as deaths the sum of their mortes and as
\* death rate deaths / trials; every row of top_localizacoes has the same sums over
\* the edges leaving the row's Location node.
C11_Somas ==
    pc = "analises" =>
        \A n \in Enes :
            /\ \A out \in top_paises(G, n) : \A q \in 1..Len(out.linhas) :
                  LinhaCerta(out.linhas[q], LocaisDoPais(out.linhas[q].chave))
            /\ \A out \in top_localizacoes(G, n) : \A q \in 1..Len(out.linhas) :
                  /\ out.linhas[q].chave \in Locais
                  /\ LinhaCerta(out.linhas[q], {out.linhas[q].chave})

\* C11 witness: top_paises returns a row of a country with two Location nodes, both
\* with trials, and with deaths
C11_Witness ==
    /\ pc = "analises"
    /\ \E out \in top_paises(G, NPadrao) : \E q \in 1..Len(out.linhas) :
          /\ out.linhas[q].Mortes > 0
          /\ \E a, b \in LocaisDoPais(out.linhas[q].chave) :
                a # b /\ Saindo({a}, "weight") > 0 /\ Saindo({b}, "weight") > 0

\* the table t (rows keyed by chave) is a ranking of at most n of the keys K, whose
\* trials are given by total
RankingCerto(t, n, K, total) ==
    /\ Len(t) <= n
    /\ \A q \in 1..Len(t) : t[q].Julgamentos # 0
    /\ \A a, b \in 1..Len(t) : a < b => t[a].Julgamentos >= t[b].Julgamentos
    /\ \A c \in K :
          (total[c] > 0 /\ \A q \in 1..Len(t) : t[q].chave # c)
              => \A q \in 1..Len(t) : total[c] <= t[q].Julgamentos

\* C12: every table top_paises(G, n) / top_localizacoes(G, n) returns has at most n
\* rows, no row with trials 0, the rows in non-increasing order of trials, and every
\* country / location with trials > 0 that has no row has at most the trials of every
\* returned row.
C12_Ranking ==
    pc = "analises" =>
        \A n \in Enes :
            /\ \A out \in top_paises(G, n) :
                  ~out.erro =>
                      RankingCerto(out.linhas, n, Paises,
                                   [c \in Paises |-> Saindo(LocaisDoPais(c), "weight")])
            /\ \A out \in top_localizacoes(G, n) :
                  ~out.erro =>
                      RankingCerto(out.linhas, n, Locais,
                                   [no \in Locais |-> Saindo({no}, "weight")])

\* the position in G.nodes() of the first node of the set V
PrimeiroNo(V) == CHOOSE k \in 1..Len(G.nos) :
                    G.nos[k] \in V /\ \A j \in 1..(k - 1) : G.nos[j] \notin V

\* C12 witness: top_localizacoes(G, 1) returns the one row of the location with most
\* trials, and leaves out a location with fewer trials that comes first in the graph
C12_Witness ==
    /\ pc = "analises"
    /\ \E out \in top_localizacoes(G, 1) :
          /\ Len(out.linhas) = 1
          /\ \E no \in Locais :
                /\ no # out.linhas[1].chave
                /\ Saindo({no}, "weight") > 0
                /\ Saindo({no}, "weight") < out.linhas[1].Julgamentos
                /\ PrimeiroNo({no}) < PrimeiroNo({out.linhas[1].chave})

\* C13 as claimed: the graph determines the table: top_paises(G, n) and
\* top_localizacoes(G, n) have one possible outcome each, in which rows with equal
\* trials are in the order in which their keys were first met in the graph.
C13_Deterministico ==
    pc = "analises" =>
        \A n \in Enes :
            /\ Cardinality(top_paises(G, n)) = 1
            /\ Cardinality(top_localizacoes(G, n)) = 1
            /\ \A out \in top_paises(G, n) : \A a, b \in 1..Len(out.linhas) :
                  (a < b /\ out.linhas[a].Julgamentos = out.linhas[b].Julgamentos)
                      => PrimeiroNo(LocaisDoPais(out.linhas[a].chave))
                            < PrimeiroNo(LocaisDoPais(out.linhas[b].chave))
            /\ \A out \in top_localizacoes(G, n) : \A a, b \in 1..Len(out.linhas) :
                  (a < b /\ out.linhas[a].Julgamentos = out.linhas[b].Julgamentos)
                      => PrimeiroNo({out.linhas[a].chave})
                            < PrimeiroNo({out.linhas[b].chave})

\* no edge of the graph has trials (the empty graph has no edge at all)
SemJulgamentos == \A e \in Arestas(G) : G.dados[e].weight = 0

\* C14 as claimed: called on a graph without trials, top_paises, top_localizacoes and
\* julgamentos_por_decada return the empty table; called on a graph without a
\* Location that has both coordinates, so does distribuir_geograficamente; none raises.
C14_VazioSemErro ==
    pc = "analises" =>
        /\ SemJulgamentos =>
              /\ top_paises(G, NPadrao) = {Tabela(<<>>)}
              /\ top_localizacoes(G, NPadrao) = {Tabela(<<>>)}
              /\ julgamentos_por_decada(G) = Tabela(<<>>)
        /\ (\A no \in Locais : G.attr[no].lat = None \/ G.attr[no].lon = None)
              => distribuir_geograficamente(G) = Tabela(<<>>)

\* the label of node no parses as a number
Numerico(no) == no.k \in {"int", "float"} \/ (no.k = "str" /\ isdigit(no))
\* ... and its value
Valor(no) == IF no.k = "float" THEN no.n \div 10 ELSE int(no)
\* the TimePeriod nodes with a numeric label
DecadasNumericas == {no \in Nos(G) : G.attr[no].tipo = Decada /\ Numerico(no)}

\* C15 as claimed: the table julgamentos_por_decada returns has exactly one row for
\* every TimePeriod node with a numeric label and no other row; the row's trials and
\* deaths are the sums over the node's incoming edges, its death rate is 0 when the
\* trials are 0 (deaths / trials otherwise), and the rows are in ascending order.
C15_UmaLinhaPorDecada ==
    (pc = "analises" /\ ~julgamentos_por_decada(G).erro) =>
        LET t == julgamentos_por_decada(G).linhas
        IN /\ \A no \in DecadasNumericas :
                 Cardinality({q \in 1..Len(t) : t[q].Decada = Valor(no)}) = 1
           /\ \A q \in 1..Len(t) :
                 \E no \in DecadasNumericas :
                    /\ t[q].Decada = Valor(no)
                    /\ t[q].Julgamentos = Entrando(no, "weight")
                    /\ t[q].Mortes = Entrando(no, "mortes")
                    /\ IF Entrando(no, "weight") = 0 THEN t[q].Taxa.num = 0
                       ELSE EhQuociente(t[q].Taxa, Entrando(no, "mortes"),
                                        Entrando(no, "weight"))
           /\ \A a, b \in 1..Len(t) : a < b => t[a].Decada < t[b].Decada

\* the Location nodes that have both coordinates
ComCoordenadas == {no \in Locais : G.attr[no].lat # None /\ G.attr[no].lon # None}

\* C16: distribuir_geograficamente returns (it does not raise) a table with exactly
\* one row for every Location node that has both lat and lon and no other row (none
\* for a Location lacking a coordinate, none for a TimePeriod node); the row's trials
\* and deaths are the sums over the node's outgoing edges, its latitude, longitude and
\* country are the node's attributes.
C16_Geografica ==
    pc = "analises" =>
        LET out == distribuir_geograficamente(G)
            t == out.linhas
        IN /\ ~out.erro
           /\ \A no \in ComCoordenadas :
                 Cardinality({q \in 1..Len(t) : t[q].Local = no}) = 1
           /\ \A q \in 1..Len(t) :
                 /\ t[q].Local \in ComCoordenadas
                 /\ t[q].Julgamentos = Saindo({t[q].Local}, "weight")
                 /\ t[q].Mortes = Saindo({t[q].Local}, "mortes")
                 /\ <<t[q].Pais, t[q].Latitude, t[q].Longitude>> = GeoDoNo(t[q].Local)

\* C16 witness: the table has a row with trials and deaths while another Location
\* lacks a coordinate and has no row
C16_Witness ==
    /\ pc = "analises"
    /\ \E q \in 1..Len(distribuir_geograficamente(G).linhas) :
          /\ distribuir_geograficamente(G).linhas[q].Julgamentos > 0
          /\ distribuir_geograficamente(G).linhas[q].Mortes > 0
    /\ \E no \in Locais :
          /\ G.attr[no].lat # None /\ G.attr[no].lon = None
          /\ \A q \in 1..Len(distribuir_geograficamente(G).linhas) :
                distribuir_geograficamente(G).linhas[q].Local # no

\* C17 as claimed: on the table the analyses are handed, the overall death rate is
\* never NaN (nor infinite); when the total of trials is 0 (the empty table included)
\* the result is (0, 0, 0.0), otherwise the rate is total deaths / total trials.
C17_TaxaGeral ==
    pc = "analises" =>
        LET r == calcular_taxas_mortalidade_geral(df)
        IN /\ taxa_mortalidade(df).k = "finito"
           /\ r.taxa.k = "finito"
           /\ IF total_julgamentos(df) = 0
              THEN /\ r.total_j = PyInt(0) /\ r.total_m = PyInt(0) /\ r.taxa.num = 0
                   /\ taxa_mortalidade(df).num = 0
              ELSE /\ EhQuociente(r.taxa, total_mortes(df), total_julgamentos(df))
                   /\ EhQuociente(taxa_mortalidade(df), total_mortes(df),
                                  total_julgamentos(df))

\* the number of edges entering / leaving node no, counted on the edge list
Entradas(no) == Cardinality({q \in 1..Len(G.arestas) : G.arestas[q][2] = no})
Saidas(no) == Cardinality({q \in 1..Len(G.arestas) : G.arestas[q][1] = no})

\* C18: on a graph of N >= 2 nodes, degree centrality gives every node
\* (in-degree + out-degree) / (N - 1), N the number of nodes of the whole graph.
C18_Grau ==
    (pc = "analises" /\ Cardinality(Nos(G)) >= 2) =>
        \A no \in Nos(G) :
            EhQuociente(degree_centrality(G)[no], Entradas(no) + Saidas(no),
                        Cardinality(Nos(G)) - 1)

\* C18 witness: a graph of at least three nodes with a period two locations share
\* and a location with two periods
C18_Witness ==
    /\ pc = "analises"
    /\ Cardinality(Nos(G)) >= 3
    /\ \E no \in Nos(G) : Entradas(no) = 2 /\ Saidas(no) = 0
                          /\ degree_centrality(G)[no].num = 2

\* the graph construir_grafo builds from the records in the order p
Reordenado(p) == construir_grafo([j \in 1..Len(df) |-> df[p[j]]])

\* C19 as claimed: the degree listings do not depend on the order in which the
\* records were ingested: the graph built from any other ordering of the records
\* gives the same top 5 by centrality, the same top n by degree and the same most
\* central node.
C19_OrdemIndependente ==
    pc = "analises" =>
        \A p \in Perms(Len(df)) :
            /\ analisar_centralidades_grau(Reordenado(p)) = analisar_centralidades_grau(G)
            /\ mais_central(Reordenado(p)) = mais_central(G)
            /\ \A n \in Enes :
                  mostrar_nos_com_maior_grau(Reordenado(p), n)
                      = mostrar_nos_com_maior_grau(G, n)

\* the position of a node in G.nodes(), the order in which the nodes were inserted
Posicao(no) == CHOOSE k \in 1..Len(G.nos) : G.nos[k] = no
\* node a comes before node b in a listing by degree
Antes(a, b) ==
    \/ Entradas(a) + Saidas(a) > Entradas(b) + Saidas(b)
    \/ Entradas(a) + Saidas(a) = Entradas(b) + Saidas(b) /\ Posicao(a) < Posicao(b)
\* the sequence t lists the first n nodes of the graph in the order Antes
ListaCerta(t, n) ==
    /\ Len(t) = (IF n < Len(G.nos) THEN n ELSE Len(G.nos))
    /\ \A q \in 1..Len(t) : t[q] \in Nos(G)
    /\ \A a, b \in 1..Len(t) : a < b => Antes(t[a], t[b])
    /\ \A no \in Nos(G) :
          (\A q \in 1..Len(t) : t[q] # no) => \A q \in 1..Len(t) : Antes(t[q], no)

\* C19 amended: the degree listings order the nodes by value, largest first, and
\* nodes of equal value by their insertion order in the graph (the order in which the
\* records first mentioned them); the most central node is the first of the listing.
C19_EmpateInsercao ==
    pc = "analises" =>
        /\ ListaCerta(analisar_centralidades_grau(G), Top5)
        /\ \A n \in Enes : ListaCerta(mostrar_nos_com_maior_grau(G, n), n)
        /\ G.nos # <<>> =>
              /\ mais_central(G) \in Nos(G)
              /\ \A no \in Nos(G) \ {mais_central(G)} : Antes(mais_central(G), no)

\* C19 witness: two nodes of equal degree are listed in their insertion order, behind
\* a node of larger degree that was inserted after one of them
C19_Witness ==
    /\ pc = "analises"
    /\ LET t == mostrar_nos_com_maior_grau(G, NPadrao)
       IN /\ Len(t) >= 3
          /\ Entradas(t[1]) + Saidas(t[1]) > Entradas(t[2]) + Saidas(t[2])
          /\ Entradas(t[2]) + Saidas(t[2]) = Entradas(t[3]) + Saidas(t[3])
          /\ Posicao(t[2]) < Posicao(t[1])
          /\ Posicao(t[2]) < Posicao(t[3])

\* two quotients are the same number
MesmoValor(a, b) == a.num * b.den = b.num * a.den

\* C20 as claimed: the closeness and the betweenness analisar_centralidades computes
\* are those of the graph with the edge directions ignored, and a node that reaches
\* no other node has closeness 0.
C20_SemDirecao ==
    pc = "analises" =>
        \A no \in Nos(G) :
            /\ MesmoValor(closeness_centrality(G)[no], closeness_de(to_undirected(G), no))
            /\ MesmoValor(betweenness_centrality(G)[no],
                          betweenness_de(to_undirected(G), no))
            /\ (to_undirected(G)[no] \subseteq {no}) => closeness_centrality(G)[no].num = 0

----------------------------------------------------------------------------
\* Vocabulary of the properties of the graph analyses

RECURSIVE Cadeia(_, _)
\* the nodes joined to a node of V by a chain of at most k edges, whatever their direction
Cadeia(V, k) ==
    IF k = 0 THEN V
    ELSE Cadeia(V \cup {G.arestas[q][2] : q \in {r \in 1..Len(G.arestas) : G.arestas[r][1] \in V}}
                  \cup {G.arestas[q][1] : q \in {r \in 1..Len(G.arestas) : G.arestas[r][2] \in V}},
                k - 1)
Ligados(a, b) == b \in Cadeia({a}, Len(G.nos))

\* C21: the weakly connected components analisar_grafo computes are non-empty sets of
\* nodes, every node is in exactly one of them, two nodes are in the same one exactly
\* when a chain of edges (directions ignored) joins them, they are listed in the order
\* in which their first node was inserted, and the component reported as largest is
\* one of maximal size, the first such in the list.
C21_Componentes ==
    pc = "analises" =>
        LET cs == weakly_connected_components(G)
        IN /\ \A q \in 1..Len(cs) : cs[q] # {} /\ cs[q] \subseteq Nos(G)
           /\ \A no \in Nos(G) : Cardinality({q \in 1..Len(cs) : no \in cs[q]}) = 1
           /\ \A a, b \in Nos(G) :
                 (\E q \in 1..Len(cs) : a \in cs[q] /\ b \in cs[q]) <=> Ligados(a, b)
           /\ \A q, r \in 1..Len(cs) : q < r => PrimeiroNo(cs[q]) < PrimeiroNo(cs[r])
           /\ cs # <<>> =>
                 \E q \in 1..Len(cs) :
                    /\ maior_componente(G) = cs[q]
                    /\ \A r \in 1..Len(cs) : Cardinality(cs[r]) <= Cardinality(cs[q])
                    /\ \A r \in 1..(q - 1) : Cardinality(cs[r]) < Cardinality(cs[q])

\* C21 witness: two locations that share a period are in one component with it
C21_Witness ==
    /\ pc = "analises"
    /\ Len(weakly_connected_components(G)) = 1
    /\ \E a, b \in Locais : a # b /\ Ligados(a, b)
    /\ Cardinality(maior_componente(G)) = 3

\* the result r is a partition of the Location nodes with its index mapping
ParticaoDosLocais(r) ==
    LET cs == r.comunidades
    IN /\ \A q \in 1..Len(cs) : cs[q] # {} /\ cs[q] \subseteq Locais
       /\ \A q, t \in 1..Len(cs) : q # t => cs[q] \cap cs[t] = {}
       /\ UNION {cs[q] : q \in 1..Len(cs)} = Locais
       /\ DOMAIN r.node_to_community = Locais
       /\ \A no \in Locais : no \in cs[r.node_to_community[no] + 1]

C23_VazioOuUm ==
    (pc = "analises" /\ Cardinality(Locais) <= 1) =>
        \A r \in detectar_comunidades(G) :
            r.comunidades = <<>> /\ DOMAIN r.node_to_community = {}

\* the Location nodes fall into two sets A and B, each a clique of the Location
\* subgraph (every two different nodes of the set are adjacent), without an edge
\* between them
DoisCliques(A, B) ==
    /\ A # {} /\ B # {} /\ A \cap B = {} /\ A \cup B = Locais
    /\ \A a, b \in A : a # b => {a, b} \in subgrafo(G)
    /\ \A a, b \in B : a # b => {a, b} \in subgrafo(G)
    /\ \A a \in A, b \in B : {a, b} \notin subgrafo(G)

C25_SomenteLeitura ==
    [][/\ Construiu => G' = G
       /\ pc' \in {"visualizacoes", "analises", "resumo", "fim"} => i' > Len(df')]_vars

\* C25 witness: the aggregations and analyses have run on a graph of two edges, which
\* is still the graph construir_grafo built
C25_Witness ==
    /\ pc = "resumo"
    /\ Len(G.arestas) >= 2
    /\ G = construir_grafo(df)

\* C26: densidade_rede computes (number of edges) / (N * (N - 1)) on a graph of
\* N >= 2 nodes, and 0 on a graph of fewer than 2 nodes.
C26_Densidade ==
    pc = "analises" =>
        LET n == Len(G.nos)
        IN IF n < 2 THEN density(G).num = 0
           ELSE EhQuociente(density(G), Len(G.arestas), n * (n - 1))

\* C26 witness: the density of a graph of three nodes and two edges is 2 / 6
C26_Witness ==
    /\ pc = "analises"
    /\ Len(G.nos) = 3 /\ Len(G.arestas) = 2
    /\ density(G) = Razao(2, 6)

\* the sum of an edge field over all the edges of the graph
TotalArestas(campo) == Soma([e \in Arestas(G) |-> G.dados[e][campo]], Arestas(G))

\* C27: in a run of main, when construir_grafo has returned the graph of the table
\* preprocessar returned, the totals the overall death rate is computed from (the sums
\* of the columns tried and deaths of that table) are the sums of weight and of mortes
\* over all the edges of the graph.
C27_TotaisIguais ==
    (Normalizada /\ Construiu) =>
        /\ total_julgamentos(df) = TotalArestas("weight")
        /\ total_mortes(df) = TotalArestas("mortes")

\* C27 witness: preprocessar dropped a record, the graph has the edge of the other, and
\* the totals are not zero
C27_Witness ==
    /\ Normalizada /\ Construiu
    /\ Len(csv) = 2 /\ Len(df) = 1
    /\ total_julgamentos(df) > 0 /\ total_mortes(df) > 0
    /\ Len(G.arestas) = 1

\* no period label of a processed record is the location key of a processed record
RotulosDistintos ==
    \A j, k \in Aceitas : iterrows(df, j).decade # iterrows(df, k).localizacao

\* C28: in every state of the build from records whose period labels are distinct from
\* all location keys, every edge runs from a node of tipo 'local' to a node of tipo
\* 'decada', no Location node has an incoming edge, no TimePeriod node has an outgoing
\* edge, the subgraph of the Location nodes (on which detectar_comunidades runs) has no
\* edge, and no edge starts where another ends (no directed path has two edges).
C28_Bipartido ==
    RotulosDistintos =>
        /\ \A q \in 1..Len(G.arestas) :
              /\ G.attr[G.arestas[q][1]].tipo = Local
              /\ G.attr[G.arestas[q][2]].tipo = Decada
        /\ \A no \in Nos(G) :
              /\ G.attr[no].tipo = Local => Entradas(no) = 0
              /\ G.attr[no].tipo = Decada => Saidas(no) = 0
        /\ subgrafo(G) = {}
        /\ \A q, r \in 1..Len(G.arestas) : G.arestas[q][2] # G.arestas[r][1]

\* C28 witness: the build is over and two locations share a period
C28_Witness ==
    /\ Construiu
    /\ RotulosDistintos
    /\ Len(G.arestas) >= 2
    /\ \E no \in Nos(G) : Entradas(no) = 2

\* C29: in every state every node of the graph has degree at least 1, so
\* mostrar_nos_sem_arestas finds no isolated node; and no step removes a node or an
\* edge or changes their order of insertion.
C29_SemIsolados ==
    /\ [](/\ \A no \in Nos(G) : Entradas(no) + Saidas(no) >= 1
          /\ isolados(G) = <<>>)
    /\ [][/\ Len(G.nos) <= Len(G'.nos) /\ SubSeq(G'.nos, 1, Len(G.nos)) = G.nos
          /\ Len(G.arestas) <= Len(G'.arestas)
          /\ SubSeq(G'.arestas, 1, Len(G.arestas)) = G.arestas]_vars

\* C29 witness: a record without trials was accepted and its nodes have their edge
C29_Witness ==
    /\ pc = "construir"
    /\ \E j \in Aceitas : df[j].tried.n = 0
    /\ \E e \in Arestas(G) : G.dados[e].weight = 0

\* the sum of a field over the rows of a table
SomaLinhas(t, campo) == Soma([q \in 1..Len(t) |-> t[q][campo]], 1..Len(t))

\* C30 as claimed: for a graph built from records with non-negative counts and n at
\* least the number of nodes, the trials of the rows of top_paises(G, n), the trials
\* of the rows of top_localizacoes(G, n) and the weights of all the edges have the same
\* sum; the deaths of the rows sum to the mortes of the edges leaving the Location
\* nodes of the countries, respectively the Location nodes, with trials > 0.
C30_SomasIguais ==
    (pc = "analises" /\ Len(G.nos) <= NPadrao /\ \A j \in 1..Len(df) : ~Negativo(df[j])) =>
        \A a \in top_paises(G, NPadrao), b \in top_localizacoes(G, NPadrao) :
            (~a.erro /\ ~b.erro) =>
                /\ SomaLinhas(a.linhas, "Julgamentos") = TotalArestas("weight")
                /\ SomaLinhas(b.linhas, "Julgamentos") = TotalArestas("weight")
                /\ SomaLinhas(a.linhas, "Mortes")
                      = Saindo(UNION {LocaisDoPais(c) :
                                         c \in {x \in Paises :
                                                  Saindo(LocaisDoPais(x), "weight") > 0}},
                               "mortes")
                /\ SomaLinhas(b.linhas, "Mortes")
                      = Saindo({no \in Locais : Saindo({no}, "weight") > 0}, "mortes")

====
